---- MODULE Spec2Model ----
(***************************************************************************)
(* A model of the InvoiceIQ Python client (src/invoiceiq/client.py):       *)
(*   - the job poller InvoiceIQClient.wait_for_job (specifications Spec    *)
(*     and LiveSpec);                                                      *)
(*   - the thin transport layer, _headers and _handle, driven by the       *)
(*     seven resource operations (specification SpecClient).               *)
(*                                                                         *)
(* Conventions.                                                            *)
(*   Time is counted in ticks of 1/1600 s, so that interval_seconds=0.01   *)
(*   is 16 ticks; backoff_factor is a ratio num/den.  The inputs keep      *)
(*   every product delay * backoff_factor integral while a sleep can       *)
(*   still happen.                                                         *)
(*   A status string is a tuple of one-character strings, because the code *)
(*   upper-cases it character by character.  Other strings are atomic.     *)
(*   Optional[str] is a tuple of length 0 (None) or 1 (the string).        *)
(***************************************************************************)
EXTENDS Integers, Sequences, FiniteSets, TLC

VARIABLES
    \* ---- wait_for_job: one call ----
    pc,         \* "idle" | "polling" | "sleeping" | "returned" | "raised"
    now,        \* time.time()
    args,       \* the arguments of the call (job_id and the keyword arguments)
    entered,    \* time.time() when the call was entered
    deadline,   \* local deadline
    delay,      \* local delay
    job,        \* local job: <<>> before the first fetch, else <<Job>>
    fetches,    \* number of calls of fetch_fn so far
    sleeps,     \* the arguments of the time.sleep calls so far, in order
    outcome,    \* how the call ended: <<>> while running
    raised,     \* what fetch_fn raised: <<>> if it never did
    \* ---- the client and its last HTTP exchange ----
    api_key,    \* self._api_key
    bearer,     \* self._bearer
    waiting,    \* an operation is blocked in its HTTP call
    call,       \* the last resource operation called, with its arguments
    request,    \* the request it handed to the httpx client: <<>> or <<request>>
    response,   \* the response it got: <<>> or <<response>>
    handled,    \* how _handle(response) ended: <<>> or <<[kind, ...]>>
    result      \* how the operation ended: <<>> or <<[kind, ...]>>

pvars == <<pc, now, args, entered, deadline, delay, job, fetches, sleeps, outcome, raised>>
cvars == <<api_key, bearer, waiting, call, request, response, handled, result>>
vars == <<pvars, cvars>>

----------------------------------------------------------------------------
(* Bounds of the model *)

\* longest time a fetch_fn call may take, in ticks
MaxLatency == 1
\* longest time a time.sleep call may overrun its argument, in ticks
MaxOversleep == 1
\* cap on the number of fetch_fn calls of one wait_for_job call
MaxFetches == 7

----------------------------------------------------------------------------
(* Python values *)

None == <<>>
Some(x) == <<x>>

\* bool(x) of an Optional[str]: None and "" are falsy
Truthy(x) == x # None /\ x[1] # ""

\* Python's `a or b`
Or(a, b) == IF Truthy(a) THEN a ELSE b

\* a str used as the message of an exception
Str(x) == [str |-> x]

LowerLetters == <<"a","b","c","d","e","f","g","h","i","j","k","l","m",
                  "n","o","p","q","r","s","t","u","v","w","x","y","z">>
UpperLetters == <<"A","B","C","D","E","F","G","H","I","J","K","L","M",
                  "N","O","P","Q","R","S","T","U","V","W","X","Y","Z">>

\* str.upper() of one ASCII character
UpperChar(c) ==
    IF \E i \in 1..26 : LowerLetters[i] = c
    THEN UpperLetters[CHOOSE i \in 1..26 : LowerLetters[i] = c]
    ELSE c

\* the table of UpperChar over the lower-case letters
UpperTable == [c \in {LowerLetters[i] : i \in 1..26} |-> UpperChar(c)]

\* str.upper()
Upper(s) ==
    [i \in 1..Len(s) |-> IF s[i] \in DOMAIN UpperTable THEN UpperTable[s[i]] ELSE s[i]]

----------------------------------------------------------------------------
(* Errors *)

\* ApiError.__init__: the text of the exception is f"HTTP {status_code}: {message}"
ApiError(status_code, message, resp) ==
    [type |-> "ApiError",
     text |-> <<"HTTP ", status_code, ": ", message>>,
     status_code |-> status_code,
     response |-> resp]

\* f"Job {job_id} en échec: {job.status}"
JobFailedMessage(job_id, status) ==
    [fmt |-> "Job {job_id} en échec: {job.status}",
     job_id |-> job_id, status |-> status]

\* TimeoutError(f"Timeout après {max_wait_seconds}s en attendant le job {job_id}")
PollTimeoutError(max_wait_seconds, job_id) ==
    [type |-> "TimeoutError",
     text |-> [fmt |-> "Timeout après {max_wait_seconds}s en attendant le job {job_id}",
               max_wait_seconds |-> max_wait_seconds, job_id |-> job_id]]

Return(v) == [kind |-> "return", value |-> v]
Raise(e) == [kind |-> "raise", exc |-> e]

----------------------------------------------------------------------------
(* wait_for_job: inputs *)

COMPLETED == <<"C","O","M","P","L","E","T","E","D">>
Completed == <<"C","o","m","p","l","e","t","e","d">>
completed == <<"c","o","m","p","l","e","t","e","d">>
FAILED == <<"F","A","I","L","E","D">>
Failed == <<"F","a","i","l","e","d">>
failed == <<"f","a","i","l","e","d">>
CANCELED == <<"C","A","N","C","E","L","E","D">>
canceled == <<"c","a","n","c","e","l","e","d">>
PENDING == <<"P","E","N","D","I","N","G">>
PROCESSING_1 == <<"P","R","O","C","E","S","S","I","N","G","_","1">>

\* what fetch_fn may report as job.status
ReportedStatuses ==
    {COMPLETED, Completed, completed, FAILED, Failed, failed,
     CANCELED, PENDING, PROCESSING_1}

JobIds == {"job-42"}
CompletedStatusArgs == {COMPLETED, completed}
FailedStatusesArgs == {{FAILED, CANCELED}, {failed, canceled}, {Completed, FAILED}}
IntervalArgs == {16, 32}
MaxWaitArgs == {0, 8, 32, 80}
BackoffArgs == {[num |-> 1, den |-> 1], [num |-> 3, den |-> 2], [num |-> 2, den |-> 1]}
StartTimes == {1000}

WaitArgs ==
    [job_id : JobIds,
     interval_seconds : IntervalArgs,
     max_wait_seconds : MaxWaitArgs,
     backoff_factor : BackoffArgs,
     completed_status : CompletedStatusArgs,
     failed_statuses : FailedStatusesArgs]

NoArgs == <<>>

\* what fetch_fn may raise instead of returning a Job
FetchErrors ==
    {ApiError(404, Str("not found"), None),
     ApiError(500, Str("Réponse binaire inattendue pour un job JSON"), None),
     [type |-> "ConnectError", text |-> Str("connection refused")],
     [type |-> "TimeoutError", text |-> Str("timed out")]}

Job(id, status) == [id |-> id, status |-> status]

----------------------------------------------------------------------------
(* wait_for_job: the decisions of the loop body *)

\* line 177: deadline = time.time() + max_wait_seconds
Deadline(t, max_wait_seconds) == t + max_wait_seconds

\* line 181: job.status.upper() == completed_status
IsCompleted(status, completed_status) == Upper(status) = completed_status

\* mutant of IsFailed: the configured statuses are not upper-cased
IsFailedAsConfigured(status, failed_statuses) == Upper(status) \in failed_statuses

\* line 183: job.status.upper() in {s.upper() for s in failed_statuses}
IsFailed(status, failed_statuses) ==
    Upper(status) \in {Upper(s) : s \in failed_statuses}

\* mutant of DeadlineExceeded: the elapsed time alone is compared
DeadlineExceededElapsed(t, d, dl) == t > dl

\* line 185: time.time() + delay > deadline
DeadlineExceeded(t, d, dl) == t + d > dl

\* mutant of NextDelay: the delay is divided by the factor
NextDelayDivided(d, backoff_factor) == (d * backoff_factor.den) \div backoff_factor.num

\* line 188: delay *= backoff_factor
NextDelay(d, backoff_factor) == (d * backoff_factor.num) \div backoff_factor.den

\* line 184: ApiError(500, f"Job {job_id} en échec: {job.status}")
JobFailedError(job_id, status) == ApiError(500, JobFailedMessage(job_id, status), None)

----------------------------------------------------------------------------
(* wait_for_job: the steps *)

\* lines 177-178: entry
WaitForJob(a) ==
    /\ pc = "idle"
    /\ pc' = "polling"
    /\ args' = a
    /\ entered' = now
    /\ deadline' = Deadline(now, a.max_wait_seconds)
    /\ delay' = a.interval_seconds
    /\ UNCHANGED <<now, job, fetches, sleeps, outcome, raised, cvars>>

\* mutant of FetchRaises: the error is swallowed and the fetch retried after a sleep
FetchRaisesRetried(e, latency) ==
    /\ pc = "polling"
    /\ fetches < MaxFetches
    /\ fetches' = fetches + 1
    /\ now' = now + latency
    /\ pc' = "sleeping"
    /\ raised' = Some(e)
    /\ UNCHANGED <<args, entered, deadline, delay, job, sleeps, outcome, cvars>>

\* line 180: fetch_fn raises; nothing in wait_for_job catches it
FetchRaises(e, latency) ==
    /\ pc = "polling"
    /\ fetches < MaxFetches
    /\ fetches' = fetches + 1
    /\ now' = now + latency
    /\ pc' = "raised"
    /\ outcome' = Some(Raise(e))
    /\ raised' = Some(e)
    /\ UNCHANGED <<args, entered, deadline, delay, job, sleeps, cvars>>

\* lines 180-182: fetch_fn returns a job in the completed status
FetchCompleted(status, latency) ==
    /\ pc = "polling"
    /\ fetches < MaxFetches
    /\ IsCompleted(status, args.completed_status)
    /\ fetches' = fetches + 1
    /\ now' = now + latency
    /\ job' = Some(Job(args.job_id, status))
    /\ pc' = "returned"
    /\ outcome' = Some(Return(Job(args.job_id, status)))
    /\ UNCHANGED <<args, entered, deadline, delay, sleeps, raised, cvars>>

\* lines 180-184: fetch_fn returns a job in a failed status
FetchFailed(status, latency) ==
    /\ pc = "polling"
    /\ fetches < MaxFetches
    /\ ~IsCompleted(status, args.completed_status)
    /\ IsFailed(status, args.failed_statuses)
    /\ fetches' = fetches + 1
    /\ now' = now + latency
    /\ job' = Some(Job(args.job_id, status))
    /\ pc' = "raised"
    /\ outcome' = Some(Raise(JobFailedError(args.job_id, status)))
    /\ UNCHANGED <<args, entered, deadline, delay, sleeps, raised, cvars>>

\* lines 180-186: the job is neither, and the next delay does not fit
FetchTimeout(status, latency) ==
    /\ pc = "polling"
    /\ fetches < MaxFetches
    /\ ~IsCompleted(status, args.completed_status)
    /\ ~IsFailed(status, args.failed_statuses)
    /\ DeadlineExceeded(now + latency, delay, deadline)
    /\ fetches' = fetches + 1
    /\ now' = now + latency
    /\ job' = Some(Job(args.job_id, status))
    /\ pc' = "raised"
    /\ outcome' = Some(Raise(PollTimeoutError(args.max_wait_seconds, args.job_id)))
    /\ UNCHANGED <<args, entered, deadline, delay, sleeps, raised, cvars>>

\* lines 180-187: the job is neither, and the next delay fits: go to sleep
FetchPending(status, latency) ==
    /\ pc = "polling"
    /\ fetches < MaxFetches
    /\ ~IsCompleted(status, args.completed_status)
    /\ ~IsFailed(status, args.failed_statuses)
    /\ ~DeadlineExceeded(now + latency, delay, deadline)
    /\ fetches' = fetches + 1
    /\ now' = now + latency
    /\ job' = Some(Job(args.job_id, status))
    /\ pc' = "sleeping"
    /\ UNCHANGED <<args, entered, deadline, delay, sleeps, outcome, raised, cvars>>

\* lines 187-188: time.sleep(delay); delay *= backoff_factor
Sleep(over) ==
    /\ pc = "sleeping"
    /\ now' = now + delay + over
    /\ sleeps' = Append(sleeps, delay)
    /\ delay' = NextDelay(delay, args.backoff_factor)
    /\ pc' = "polling"
    /\ UNCHANGED <<args, entered, deadline, job, fetches, outcome, raised, cvars>>

----------------------------------------------------------------------------
(* Specifications of the poller *)

InitClientIdle ==
    /\ api_key = Some("KEY123")
    /\ bearer = None
    /\ waiting = FALSE
    /\ call = None
    /\ request = None
    /\ response = None
    /\ handled = None
    /\ result = None

Init ==
    /\ pc = "idle"
    /\ now \in StartTimes
    /\ args = NoArgs
    /\ entered = 0
    /\ deadline = 0
    /\ delay = 0
    /\ job = None
    /\ fetches = 0
    /\ sleeps = <<>>
    /\ outcome = None
    /\ raised = None
    /\ InitClientIdle

Next ==
    \/ \E a \in WaitArgs : WaitForJob(a)
    \/ \E e \in FetchErrors, l \in 0..MaxLatency : FetchRaises(e, l)
    \/ \E s \in ReportedStatuses, l \in 0..MaxLatency : FetchCompleted(s, l)
    \/ \E s \in ReportedStatuses, l \in 0..MaxLatency : FetchFailed(s, l)
    \/ \E s \in ReportedStatuses, l \in 0..MaxLatency : FetchTimeout(s, l)
    \/ \E s \in ReportedStatuses, l \in 0..MaxLatency : FetchPending(s, l)
    \/ \E o \in 0..MaxOversleep : Sleep(o)

Spec == Init /\ [][Next]_vars

\* The poller with a fetch_fn that always returns a job.  The call runs on one
\* thread that nothing preempts for ever, so an enabled step is eventually taken.
NextReturning ==
    \/ \E a \in WaitArgs : WaitForJob(a)
    \/ \E s \in ReportedStatuses, l \in 0..MaxLatency : FetchCompleted(s, l)
    \/ \E s \in ReportedStatuses, l \in 0..MaxLatency : FetchFailed(s, l)
    \/ \E s \in ReportedStatuses, l \in 0..MaxLatency : FetchTimeout(s, l)
    \/ \E s \in ReportedStatuses, l \in 0..MaxLatency : FetchPending(s, l)
    \/ \E o \in 0..MaxOversleep : Sleep(o)

LiveSpec == Init /\ [][NextReturning]_vars /\ WF_vars(NextReturning)

----------------------------------------------------------------------------
(* Properties of wait_for_job *)

Terminated == pc \in {"returned", "raised"}

\* the last step was a fetch_fn call that returned the job held in `job`
JustFetched == job # None /\ raised = None /\ pc \in {"sleeping", "returned", "raised"}

\* the status classes as the documentation defines them: case-insensitive on both sides
CompletedClass(status) == Upper(status) = Upper(args.completed_status)
FailedClass(status) == \E f \in args.failed_statuses : Upper(status) = Upper(f)
PendingClass(status) == ~CompletedClass(status) /\ ~FailedClass(status)

ReturnedJob == pc = "returned" /\ outcome = Some(Return(job[1]))
RaisedJobFailed ==
    /\ pc = "raised"
    /\ raised = None
    /\ job # None
    /\ outcome[1] = Raise(ApiError(500, JobFailedMessage(args.job_id, job[1].status), None))
RaisedTimeout ==
    /\ pc = "raised"
    /\ outcome = Some(Raise(PollTimeoutError(args.max_wait_seconds, args.job_id)))

\* every fetch but the last one was followed by exactly one sleep
EndedOnLastFetch == fetches = Len(sleeps) + 1

RECURSIVE Power(_, _)
Power(b, n) == IF n = 0 THEN 1 ELSE b * Power(b, n - 1)

\* the fetch cap of the model is never what stops a call
CapNotBinding == pc = "polling" => fetches < MaxFetches

\* the ticks are fine enough: every delay slept, or about to be, is exactly
\* interval_seconds * backoff_factor^k
DelaysExact ==
    pc = "sleeping" =>
        delay * Power(args.backoff_factor.den, Len(sleeps))
            = args.interval_seconds * Power(args.backoff_factor.num, Len(sleeps))

\* C1 (as claimed): a fetch reporting completed_status in any casing, whatever the
\* casing of the configured completed_status, makes the call return that job at
\* once, with no further fetch and no further sleep.
C1_CompletedAnyCasingReturns ==
    (JustFetched /\ CompletedClass(job[1].status))
        => (ReturnedJob /\ EndedOnLastFetch)

\* C2 (as claimed): a fetch reporting any member of failed_statuses, in any
\* casing, makes the call raise the job-failed ApiError at once.
C2_EveryFailedStatusRaises ==
    (JustFetched /\ FailedClass(job[1].status))
        => (RaisedJobFailed /\ EndedOnLastFetch)

\* C2 (amended): a fetch reporting a member of failed_statuses, in any casing of
\* either side, that does not also match completed_status case-insensitively makes
\* the call raise ApiError(500) at once, with no further fetch and no sleep after
\* it; the error message carries the job id and the status as reported.
C2_FailedStatusRaises ==
    (JustFetched /\ FailedClass(job[1].status) /\ ~CompletedClass(job[1].status))
        => /\ pc = "raised"
           /\ outcome # None
           /\ outcome[1].kind = "raise"
           /\ outcome[1].exc.type = "ApiError"
           /\ outcome[1].exc.status_code = 500
           /\ outcome[1].exc.text[4].job_id = args.job_id
           /\ outcome[1].exc.text[4].status = job[1].status
           /\ EndedOnLastFetch

C2_Witness ==
    /\ RaisedJobFailed
    /\ job[1].status = Failed
    /\ args.failed_statuses = {failed, canceled}
    /\ Len(sleeps) >= 1

\* C3: the deadline is entry time + max_wait_seconds for the whole call; after a
\* fetch reporting a pending status the call goes to sleep only if
\* now + delay <= deadline and raises TimeoutError, without sleeping, otherwise;
\* when interval_seconds > max_wait_seconds there is one fetch and no sleep.
C3_DeadlineCheckedBeforeSleep ==
    pc # "idle" =>
        /\ deadline = entered + args.max_wait_seconds
        /\ pc = "sleeping" => now + delay <= deadline
        /\ RaisedTimeout => (now + delay > deadline /\ EndedOnLastFetch)
        /\ (JustFetched /\ PendingClass(job[1].status)) =>
               IF now + delay > deadline THEN RaisedTimeout ELSE pc = "sleeping"
        /\ args.interval_seconds > args.max_wait_seconds =>
               /\ sleeps = << >>
               /\ fetches <= 1
               /\ Terminated => fetches = 1

C3_Witness ==
    /\ RaisedTimeout
    /\ PendingClass(job[1].status)
    /\ args.interval_seconds > args.max_wait_seconds
    /\ fetches = 1
    /\ sleeps = << >>

\* C4 (as claimed): when fetch_fn reports the configured completed status on call
\* k+1, after k pending reports whose delays all fitted, the call returns that job
\* after exactly k+1 fetches and k sleeps, the i-th sleep lasting
\* interval_seconds * backoff_factor^(i-1).
C4_ReturnsAfterKSleeps ==
    (JustFetched /\ job[1].status = args.completed_status)
        => /\ ReturnedJob
           /\ EndedOnLastFetch
           /\ \A i \in 1..Len(sleeps) :
                  sleeps[i] * Power(args.backoff_factor.den, i - 1)
                      = args.interval_seconds * Power(args.backoff_factor.num, i - 1)

\* C5: an error raised by fetch_fn ends the call with that very error: no fetch
\* and no sleep follow it, and it is not replaced by another error.
C5_FetchErrorPropagates ==
    raised # None
        => /\ pc = "raised"
           /\ outcome = Some(Raise(raised[1]))
           /\ EndedOnLastFetch

C5_Witness ==
    /\ raised # None
    /\ raised[1].type = "TimeoutError"
    /\ outcome = Some(Raise(raised[1]))
    /\ Len(sleeps) >= 2

\* C6 (as claimed): when completed_status and a member of failed_statuses coincide
\* case-insensitively, a fetch reporting that status in any casing returns the job.
C6_CompletedWinsOverFailed ==
    (JustFetched /\ CompletedClass(job[1].status) /\ FailedClass(job[1].status))
        => ReturnedJob

\* C9: with a fetch_fn that always returns, every call ends, and ends in exactly
\* one of three ways: the job is returned, the job-failed ApiError is raised, or
\* TimeoutError is raised.
C9_Terminates ==
    <>(/\ Terminated
       /\ ReturnedJob \/ RaisedJobFailed \/ RaisedTimeout
       /\ ~(ReturnedJob /\ RaisedJobFailed)
       /\ ~(ReturnedJob /\ RaisedTimeout)
       /\ ~(RaisedJobFailed /\ RaisedTimeout))

C9_Witness ==
    /\ RaisedTimeout
    /\ Len(sleeps) >= 4
    /\ PendingClass(job[1].status)

\* C10 (as claimed): a call makes at least one fetch; a completed-class or
\* failed-class status seen on any fetch ends the call by the return or by the
\* job-failed error, never by TimeoutError, which is raised only right after a
\* fetch that reported a pending status.
C10_StatusClassifiedBeforeDeadline ==
    /\ Terminated => fetches >= 1
    /\ (JustFetched /\ ~PendingClass(job[1].status)) => (ReturnedJob \/ RaisedJobFailed)
    /\ RaisedTimeout => (JustFetched /\ PendingClass(job[1].status))

----------------------------------------------------------------------------
(* The transport layer: inputs *)

ApiKeyArgs == {None, Some(""), Some("KEY123")}
BearerArgs == {None, Some(""), Some("TOKEN9")}
IdempotencyKeyArgs == {None, Some(""), Some("abc-123")}
OptionalFieldArgs == {None, Some("R1")}
ResourceIds == {"job-1"}

StatusCodes == {200, 202, 399, 400, 404, 500}

\* the bodies a server may answer with (resp.text)
BodyNotFound == "{\"message\": \"not found\"}"
BodyError == "{\"error\": \"bad request\"}"
BodyBoth == "{\"message\": \"quota\", \"error\": \"bad request\"}"
BodyEmptyMessage == "{\"message\": \"\", \"error\": \"bad request\"}"
BodyNullMessage == "{\"message\": null}"
BodyJob == "{\"id\": \"job-1\", \"status\": \"PENDING\"}"
BodyList == "[1, 2]"
BodyPlain == "Internal Server Error"

Bodies ==
    {BodyNotFound, BodyError, BodyBoth, BodyEmptyMessage, BodyNullMessage,
     BodyJob, BodyList, BodyPlain}

\* "" stands for a response without a content-type header
ContentTypes == {"application/json", "application/json; charset=utf-8", "application/pdf", ""}

Responses == [status_code : StatusCodes, text : Bodies, content_type : ContentTypes]

----------------------------------------------------------------------------
(* The transport layer: helpers *)

EmptyDict == [k \in {} |-> None]

\* dict.get(key): None when the key is absent
DictGet(d, k) == IF k \in DOMAIN d THEN d[k] ELSE None

\* dict.update(extra): the keys of extra win
DictUpdate(d, extra) == extra @@ d

\* resp.json() on the bodies above: a dict of Optional[str], a list, or a failure
JsonParse(text) ==
    CASE text = BodyNotFound -> [ok |-> TRUE, kind |-> "dict",
                                 d |-> ("message" :> Some("not found"))]
      [] text = BodyError -> [ok |-> TRUE, kind |-> "dict",
                              d |-> ("error" :> Some("bad request"))]
      [] text = BodyBoth -> [ok |-> TRUE, kind |-> "dict",
                             d |-> ("message" :> Some("quota") @@ "error" :> Some("bad request"))]
      [] text = BodyEmptyMessage -> [ok |-> TRUE, kind |-> "dict",
                                     d |-> ("message" :> Some("") @@ "error" :> Some("bad request"))]
      [] text = BodyNullMessage -> [ok |-> TRUE, kind |-> "dict",
                                    d |-> ("message" :> None)]
      [] text = BodyJob -> [ok |-> TRUE, kind |-> "dict",
                            d |-> ("id" :> Some("job-1") @@ "status" :> Some("PENDING"))]
      [] text = BodyList -> [ok |-> TRUE, kind |-> "list", d |-> EmptyDict]
      [] OTHER -> [ok |-> FALSE, kind |-> "none", d |-> EmptyDict]

\* "application/json" in ctype
ContainsJson(ctype) == ctype \in {"application/json", "application/json; charset=utf-8"}

\* mutant of Headers: the bearer token is attached only when there is no API key
HeadersEither(key, token, extra) ==
    LET h2 == IF Truthy(key)
              THEN DictUpdate(EmptyDict, "X-API-KEY" :> <<key[1]>>)
              ELSE IF Truthy(token)
                   THEN DictUpdate(EmptyDict, "Authorization" :> <<"Bearer ", token[1]>>)
                   ELSE EmptyDict
    IN  IF extra # None /\ DOMAIN extra[1] # {}
        THEN DictUpdate(h2, extra[1])
        ELSE h2

\* lines 49-57: _headers
Headers(key, token, extra) ==
    LET h1 == IF Truthy(key)
              THEN DictUpdate(EmptyDict, "X-API-KEY" :> <<key[1]>>)
              ELSE EmptyDict
        h2 == IF Truthy(token)
              THEN DictUpdate(h1, "Authorization" :> <<"Bearer ", token[1]>>)
              ELSE h1
    IN  IF extra # None /\ DOMAIN extra[1] # {}
        THEN DictUpdate(h2, extra[1])
        ELSE h2

\* lines 87 and 121: {"Idempotency-Key": idempotency_key} if idempotency_key else None
IdempotencyExtra(idempotency_key) ==
    IF Truthy(idempotency_key)
    THEN Some("Idempotency-Key" :> <<idempotency_key[1]>>)
    ELSE None

\* mutant of ErrorMessage: the error field is looked up before the message field
ErrorMessageErrorFirst(resp) ==
    LET data == JsonParse(resp.text)
    IN  IF data.ok /\ data.kind = "dict"
        THEN Or(Or(DictGet(data.d, "error"), DictGet(data.d, "message")), Some(resp.text))
        ELSE Some(resp.text)

\* lines 62-66: the message extracted from an error response
ErrorMessage(resp) ==
    LET data == JsonParse(resp.text)
    IN  IF data.ok /\ data.kind = "dict"
        THEN Or(Or(DictGet(data.d, "message"), DictGet(data.d, "error")), Some(resp.text))
        ELSE Some(resp.text)

\* lines 59-71: _handle
Handle(resp) ==
    IF resp.status_code >= 400
    THEN Raise(ApiError(resp.status_code, Str(ErrorMessage(resp)), Some(resp)))
    ELSE IF ContainsJson(resp.content_type)
         THEN IF JsonParse(resp.text).ok
              THEN Return([json |-> JsonParse(resp.text)])
              ELSE Raise([type |-> "JSONDecodeError", text |-> Str(Some(resp.text))])
         ELSE Return([bytes |-> resp.text])

\* lines 102-104, 137-138, 156-157: a typed fetch rejects a binary answer
RejectBinary(h, what) ==
    IF h.kind = "return" /\ "bytes" \in DOMAIN h.value
    THEN Raise(ApiError(500, Str(Some(what)), None))
    ELSE h

\* the fields the models declare (models.py lines 88-92 and 95-99)
JobFields == {"id", "status", "downloadUrl", "reportDownloadUrl"}
ReportFields == {"transformation", "finalScore", "profile", "issues"}

\* BaseModel.model_validate keeps the declared fields the body gives and drops
\* every other key; a declared field the body does not give stays None
FieldsSet(d, declared) == [k \in (DOMAIN d) \cap declared |-> d[k]]

\* Job.model_validate: id and status are required strings
ValidateJob(h) ==
    IF h.kind = "return" /\ "json" \in DOMAIN h.value
    THEN IF /\ h.value.json.kind = "dict"
            /\ DictGet(h.value.json.d, "id") # None
            /\ DictGet(h.value.json.d, "status") # None
         THEN Return([model |-> "Job", fields |-> FieldsSet(h.value.json.d, JobFields)])
         ELSE Raise([type |-> "ValidationError", text |-> Str(Some("Job"))])
    ELSE h

\* ValidationReport.model_validate: every field is optional
ValidateReport(h) ==
    IF h.kind = "return" /\ "json" \in DOMAIN h.value
    THEN IF h.value.json.kind = "dict"
         THEN Return([model |-> "ValidationReport",
                      fields |-> FieldsSet(h.value.json.d, ReportFields)])
         ELSE Raise([type |-> "ValidationError", text |-> Str(Some("ValidationReport"))])
    ELSE h

Request(method, path, headers, data) ==
    [method |-> method, path |-> path, headers |-> headers, data |-> data]

\* lines 89-93: the form fields of a validation
ValidationData(callback_url, reference_id) ==
    LET d1 == IF Truthy(callback_url)
              THEN DictUpdate(EmptyDict, "callbackUrl" :> callback_url[1])
              ELSE EmptyDict
    IN  IF Truthy(reference_id)
        THEN DictUpdate(d1, "referenceId" :> reference_id[1])
        ELSE d1

\* an operation hands its request to the httpx client and blocks on the answer
Send(c, req) ==
    /\ ~waiting
    /\ waiting' = TRUE
    /\ call' = Some(c)
    /\ request' = Some(req)
    /\ response' = None
    /\ handled' = None
    /\ result' = None
    /\ UNCHANGED <<api_key, bearer, pvars>>

----------------------------------------------------------------------------
(* The resource operations, up to the HTTP call *)

\* lines 78-95
ValidateDocument(idempotency_key, callback_url, reference_id) ==
    Send([op |-> "validate_document", idempotency_key |-> idempotency_key],
         Request("POST", <<"/v1/validations">>,
                 Headers(api_key, bearer, IdempotencyExtra(idempotency_key)),
                 ValidationData(callback_url, reference_id)))

\* lines 98-100
GetValidationReport(validation_id) ==
    Send([op |-> "get_validation_report", idempotency_key |-> None],
         Request("GET", <<"/v1/validations/", validation_id, "/report">>,
                 Headers(api_key, bearer, None), EmptyDict))

\* lines 107-109
ListValidations ==
    Send([op |-> "list_validations", idempotency_key |-> None],
         Request("GET", <<"/v1/validations">>, Headers(api_key, bearer, None), EmptyDict))

\* lines 113-130
TransformPdf(idempotency_key) ==
    Send([op |-> "transform_pdf", idempotency_key |-> idempotency_key],
         Request("POST", <<"/api/v1/transformations">>,
                 Headers(api_key, bearer, IdempotencyExtra(idempotency_key)),
                 "metadata" :> "metadata_str"))

\* lines 133-135
GetTransformation(job_id) ==
    Send([op |-> "get_transformation", idempotency_key |-> None],
         Request("GET", <<"/api/v1/transformations/", job_id>>,
                 Headers(api_key, bearer, None), EmptyDict))

\* lines 142-149
GenerateInvoice ==
    Send([op |-> "generate_invoice", idempotency_key |-> None],
         Request("POST", <<"/api/v1/generations">>,
                 Headers(api_key, bearer, Some("Content-Type" :> <<"application/json">>)),
                 EmptyDict))

\* lines 152-154
GetGeneration(job_id) ==
    Send([op |-> "get_generation", idempotency_key |-> None],
         Request("GET", <<"/api/v1/generations/", job_id>>,
                 Headers(api_key, bearer, None), EmptyDict))

\* what each operation does with _handle's outcome (lines 96, 101-105, 110, 131,
\* 136-139, 150, 155-158)
Finish(op, h) ==
    CASE op = "get_validation_report" ->
             ValidateReport(RejectBinary(h, "Réponse binaire inattendue pour un rapport JSON"))
      [] op \in {"get_transformation", "get_generation"} ->
             ValidateJob(RejectBinary(h, "Réponse binaire inattendue pour un job JSON"))
      [] OTHER -> h

\* the answer arrives: the operation runs _handle on it and ends
Receive(resp) ==
    /\ waiting
    /\ waiting' = FALSE
    /\ response' = Some(resp)
    /\ handled' = Some(Handle(resp))
    /\ result' = Some(Finish(call[1].op, Handle(resp)))
    /\ UNCHANGED <<api_key, bearer, call, request, pvars>>

----------------------------------------------------------------------------
(* Specification of the client *)

\* lines 30-46: a client constructed with any combination of credentials
InitClient ==
    /\ api_key \in ApiKeyArgs
    /\ bearer \in BearerArgs
    /\ waiting = FALSE
    /\ call = None
    /\ request = None
    /\ response = None
    /\ handled = None
    /\ result = None
    /\ pc = "idle"
    /\ now \in StartTimes
    /\ args = NoArgs
    /\ entered = 0
    /\ deadline = 0
    /\ delay = 0
    /\ job = None
    /\ fetches = 0
    /\ sleeps = <<>>
    /\ outcome = None
    /\ raised = None

NextClient ==
    \/ \E k \in IdempotencyKeyArgs, cb \in OptionalFieldArgs, ref \in OptionalFieldArgs :
          ValidateDocument(k, cb, ref)
    \/ \E id \in ResourceIds : GetValidationReport(id)
    \/ ListValidations
    \/ \E k \in IdempotencyKeyArgs : TransformPdf(k)
    \/ \E id \in ResourceIds : GetTransformation(id)
    \/ GenerateInvoice
    \/ \E id \in ResourceIds : GetGeneration(id)
    \/ \E r \in Responses : Receive(r)

SpecClient == InitClient /\ [][NextClient]_vars

----------------------------------------------------------------------------
(* Properties of the transport layer *)

\* a field of a JSON object is present when the object has the key
Present(data, k) == data.ok /\ data.kind = "dict" /\ k \in DOMAIN data.d

\* a field that is present and holds a non-empty string
NonEmpty(data, k) == Present(data, k) /\ data.d[k] # None /\ data.d[k] # Some("")

\* the message C7 claims: `message` if present, else `error` if present, else the text
ClaimedMessage(resp) ==
    LET data == JsonParse(resp.text)
    IN  IF Present(data, "message") THEN data.d["message"]
        ELSE IF Present(data, "error") THEN data.d["error"]
        ELSE Some(resp.text)

\* the message of the amended C7: empty and null fields are passed over
AmendedMessage(resp) ==
    LET data == JsonParse(resp.text)
    IN  IF NonEmpty(data, "message") THEN data.d["message"]
        ELSE IF NonEmpty(data, "error") THEN data.d["error"]
        ELSE Some(resp.text)

RaisesApiError(h) == h.kind = "raise" /\ h.exc.type = "ApiError"

\* C7 (as claimed): _handle turns a response with status >= 400 into an ApiError
\* with that status, the response attached, and as message the body's `message`
\* field if present, else its `error` field if present, else the raw text; it
\* raises no ApiError for a status < 400.
C7_ErrorMessageIfPresent ==
    handled # None =>
        IF response[1].status_code >= 400
        THEN handled[1] = Raise(ApiError(response[1].status_code,
                                         Str(ClaimedMessage(response[1])),
                                         response))
        ELSE ~RaisesApiError(handled[1])

\* C7 (amended): as C7, but a `message` or `error` field counts only when it holds
\* a non-empty value: an empty or null `message` gives way to `error`, and an
\* empty or null `error` to the raw text.
C7_ErrorMessageIfNonEmpty ==
    handled # None =>
        IF response[1].status_code >= 400
        THEN handled[1] = Raise(ApiError(response[1].status_code,
                                         Str(AmendedMessage(response[1])),
                                         response))
        ELSE ~RaisesApiError(handled[1])

C7_Witness ==
    /\ handled # None
    /\ response[1].status_code = 404
    /\ response[1].text = BodyNotFound
    /\ handled[1] = Raise(ApiError(404, Str(Some("not found")), response))

\* a credential or key is configured when it was given and is not the empty
\* string (the constructor itself, line 38, takes an empty key for no key)
Configured(x) == x # None /\ x # Some("")

\* C8: every request carries X-API-KEY, with the key, exactly when an API key is
\* configured, and Authorization: Bearer <token> exactly when a bearer token is;
\* a submission of a validation or a transformation carries Idempotency-Key, with
\* the caller's key, exactly when the caller gave one.
C8_AuthHeaders ==
    request # None =>
        LET h == request[1].headers
        IN  /\ "X-API-KEY" \in DOMAIN h <=> Configured(api_key)
            /\ Configured(api_key) => h["X-API-KEY"] = <<api_key[1]>>
            /\ "Authorization" \in DOMAIN h <=> Configured(bearer)
            /\ Configured(bearer) => h["Authorization"] = <<"Bearer ", bearer[1]>>
            /\ call[1].op \in {"validate_document", "transform_pdf"} =>
                   /\ "Idempotency-Key" \in DOMAIN h <=> Configured(call[1].idempotency_key)
                   /\ Configured(call[1].idempotency_key) =>
                          h["Idempotency-Key"] = <<call[1].idempotency_key[1]>>
            /\ call[1].op \notin {"validate_document", "transform_pdf"} =>
                   "Idempotency-Key" \notin DOMAIN h

C8_Witness ==
    /\ request # None
    /\ result # None
    /\ Configured(api_key)
    /\ Configured(bearer)
    /\ call[1] = [op |-> "validate_document", idempotency_key |-> Some("abc-123")]
    /\ DOMAIN request[1].headers = {"X-API-KEY", "Authorization", "Idempotency-Key"}

====
